---- MODULE Spec2Model ----
(***************************************************************************)
(* Two controllers of the Compass desktop client:                          *)
(*   - the Atlas sign-in store (reducer, attempt registry, thunks),        *)
(*   - the connections hook (useConnections: reducer, storage, connect).   *)
(* Each is a state machine of its own; SpecSignIn and SpecConnections run  *)
(* one of them while the variables of the other keep their initial value.  *)
(***************************************************************************)
EXTENDS Integers, Sequences, FiniteSets, Bags, TLC

VARIABLES
  \* ---- Atlas sign-in store ----
  atlasSignInState,   \* the redux state record (AtlasSignInState)
  attemptId,          \* module-level counter `attemptId`
  AttemptStateMap,    \* id -> attempt (abort flag, promise status)
  microtasks,         \* queued promise reactions: ids whose `finally` will dispatch AttemptEnd
  immediates,         \* queued setImmediate callbacks of startAttempt
  signInCalls,        \* suspended signIn() thunks: a bag of [id, pc]
  restoreCalls,       \* number of restoreSignInState() thunks awaiting isAuthenticated()
  syncTurn,           \* TRUE while the synchronous code of a caller may still continue
  \* ---- run bookkeeping, shared by both controllers ----
  calls,              \* number of operations invoked so far (bounds the run)
  lastCall,           \* the operation of the last step and its outcome (history)
  \* ---- useConnections hook ----
  connectionsState,   \* the useReducer state record (State)
  storage,            \* connectionStorage: the set of stored profiles, one per id
  isConnected,        \* the isConnected prop
  connectingConnectionAttempt,   \* the ref: id of the attempt to cancel on unmount, or NoAttempt
  attempts,           \* ConnectionAttempt objects created so far: id -> [closed]
  uuid,               \* number of ids uuidv4() has handed out
  now,                \* the clock read by new Date()
  suspended           \* async calls of the hook waiting on a collaborator: a bag

signInVars == <<atlasSignInState, attemptId, AttemptStateMap, microtasks,
                immediates, signInCalls, restoreCalls, syncTurn>>

connectionsVars == <<connectionsState, storage, isConnected, connectingConnectionAttempt,
                     attempts, uuid, now, suspended>>

vars == <<signInVars, connectionsVars, calls, lastCall>>

\* ------------------------------------------------------------------------
\* Bounds of the model
\* ------------------------------------------------------------------------
MaxCalls == 3         \* operations invoked on the sign-in store in one run
MaxHookCalls == 2     \* operations invoked on the connections hook in one run

\* ------------------------------------------------------------------------
\* Atlas sign-in store: data
\* ------------------------------------------------------------------------
NullId == 0           \* currentAttemptId: null (ids start at 1: ++attemptId)
NullMsg == "null"     \* error: null
Messages == {"E1", "E2"}   \* messages of errors thrown by the identity service

SignInStates == {"initial", "restoring", "unauthenticated", "in-progress",
                 "success", "error", "canceled"}

INITIAL_STATE ==
  [state |-> "initial", error |-> NullMsg, isModalOpen |-> FALSE,
   currentAttemptId |-> NullId]

Act(type) == [type |-> type, id |-> NullId, error |-> NullMsg]
ActId(type, id) == [type |-> type, id |-> id, error |-> NullMsg]
ActError(type, msg) == [type |-> type, id |-> NullId, error |-> msg]

reducer_TokenRefreshFailed_unguarded(state) ==
  [INITIAL_STATE EXCEPT !.state = "error"]

reducer_TokenRefreshFailed(state) ==
  IF state.state # "success" THEN state
  ELSE [INITIAL_STATE EXCEPT !.state = "error"]

reducer_Cancel_keepsAttempt(state) ==
  [state EXCEPT !.state = "canceled"]

reducer_Cancel(state) ==
  [INITIAL_STATE EXCEPT !.state = "canceled"]

reducer_RestoringFailed_ignored(state) == state

reducer_RestoringFailed(state) ==
  IF state.state # "restoring" THEN state
  ELSE [state EXCEPT !.state = "unauthenticated"]

reducer_RestoringSuccess_unguarded(state) ==
  [state EXCEPT !.state = "success", !.error = NullMsg]

reducer_RestoringSuccess(state) ==
  IF state.state # "restoring" THEN state
  ELSE [state EXCEPT !.state = "success", !.error = NullMsg]

reducer_SignedOut_keepsAttempt(state) ==
  [INITIAL_STATE EXCEPT !.currentAttemptId = state.currentAttemptId]

reducer_SignedOut(state) == INITIAL_STATE

reducer(state, action) ==
  CASE action.type = "RestoringStart" -> [state EXCEPT !.state = "restoring"]
    [] action.type = "RestoringSuccess" -> reducer_RestoringSuccess(state)
    [] action.type = "RestoringFailed" -> reducer_RestoringFailed(state)
    [] action.type = "AttemptStart" -> [state EXCEPT !.currentAttemptId = action.id]
    [] action.type = "AttemptEnd" -> [state EXCEPT !.currentAttemptId = NullId]
    [] action.type = "Start" -> [state EXCEPT !.state = "in-progress"]
    [] action.type = "Success" ->
         [state EXCEPT !.isModalOpen = FALSE, !.state = "success", !.error = NullMsg]
    [] action.type = "Error" ->
         [state EXCEPT !.isModalOpen = FALSE, !.state = "error", !.error = action.error]
    [] action.type = "Cancel" -> reducer_Cancel(state)
    [] action.type = "OpenSignInModal" -> [state EXCEPT !.isModalOpen = TRUE]
    [] action.type = "CloseSignInModal" -> [state EXCEPT !.isModalOpen = FALSE]
    [] action.type = "TokenRefreshFailed" -> reducer_TokenRefreshFailed(state)
    [] action.type = "SignedOut" -> reducer_SignedOut(state)
    [] OTHER -> state

\* An attempt record: `registered` tells that startAttempt attached the
\* `finally` reaction that dispatches AttemptEnd.
NewAttempt(registered) ==
  [aborted |-> FALSE, promise |-> "pending", registered |-> registered]

Suspended(id, pc) == [id |-> id, pc |-> pc]

\* resolve()/reject() of an attempt's promise: settles it when pending (a settled
\* promise ignores the call); the `finally` reaction is then queued as a microtask.
Settle(map, id, how) ==
  IF map[id].promise = "pending" THEN [map EXCEPT ![id].promise = how] ELSE map

SettleReactions(map, id) ==
  IF map[id].promise = "pending" /\ map[id].registered THEN <<id>> ELSE <<>>

Call(op, id, result) == [op |-> op, id |-> id, result |-> result, toast |-> "none"]
CallToast(op, id, result, toast) ==
  [op |-> op, id |-> id, result |-> result, toast |-> toast]

\* One more operation is invoked by a caller.
Invoke ==
  /\ calls < MaxCalls
  /\ calls' = calls + 1
  /\ syncTurn' = TRUE
  /\ UNCHANGED connectionsVars

\* A task or a promise reaction of the event loop runs.
Resume ==
  /\ calls' = calls
  /\ syncTurn' = FALSE
  /\ UNCHANGED connectionsVars

\* A caller may run when no promise reaction is queued, or in the same
\* synchronous turn as the previous call.
CallerMayRun == microtasks = <<>> \/ syncTurn
\* Timers and collaborator completions are tasks: they run when the microtask
\* queue is empty.
TaskMayRun == microtasks = <<>>

\* ------------------------------------------------------------------------
\* Atlas sign-in store: thunks
\* ------------------------------------------------------------------------
SignInInit ==
  /\ atlasSignInState = INITIAL_STATE
  /\ attemptId = 0
  /\ AttemptStateMap = <<>>
  /\ microtasks = <<>>
  /\ immediates = <<>>
  /\ signInCalls = EmptyBag
  /\ restoreCalls = 0
  /\ syncTurn = FALSE

\* restoreSignInState(): only from 'initial'; awaits atlasService.isAuthenticated().
restoreSignInState_unguarded ==
  /\ atlasSignInState' = reducer(atlasSignInState, Act("RestoringStart"))
  /\ restoreCalls' = restoreCalls + 1
  /\ lastCall' = Call("restoreSignInState", NullId, "suspended")

restoreSignInState ==
  IF atlasSignInState.state # "initial"
  THEN /\ lastCall' = Call("restoreSignInState", NullId, "noop")
       /\ UNCHANGED <<atlasSignInState, restoreCalls>>
  ELSE /\ atlasSignInState' = reducer(atlasSignInState, Act("RestoringStart"))
       /\ restoreCalls' = restoreCalls + 1
       /\ lastCall' = Call("restoreSignInState", NullId, "suspended")

RestoreSignInState ==
  /\ CallerMayRun
  /\ restoreSignInState
  /\ Invoke
  /\ UNCHANGED <<attemptId, AttemptStateMap, microtasks, immediates, signInCalls>>

\* The isAuthenticated() call of a restore returns true, returns false or throws.
RestoreReturns(outcome) ==
  /\ TaskMayRun
  /\ restoreCalls > 0
  /\ restoreCalls' = restoreCalls - 1
  /\ atlasSignInState' =
       reducer(atlasSignInState,
               Act(IF outcome = "true" THEN "RestoringSuccess" ELSE "RestoringFailed"))
  /\ lastCall' = Call("restoreSignInState:resumed", NullId, outcome)
  /\ Resume
  /\ UNCHANGED <<attemptId, AttemptStateMap, microtasks, immediates, signInCalls>>

\* startAttempt(fn): throws when an attempt is current; else registers a new
\* attempt, dispatches AttemptStart, attaches the `finally` reaction and
\* schedules fn with setImmediate.
startAttempt_unchecked(op, fn) ==
  LET id == attemptId + 1 IN
  /\ attemptId' = id
  /\ AttemptStateMap' = Append(AttemptStateMap, NewAttempt(TRUE))
  /\ atlasSignInState' = reducer(atlasSignInState, ActId("AttemptStart", id))
  /\ immediates' = Append(immediates, fn)
  /\ lastCall' = Call(op, id, "started")

startAttempt(op, fn) ==
  IF atlasSignInState.currentAttemptId # NullId
  THEN /\ lastCall' = Call(op, atlasSignInState.currentAttemptId, "threw")
       /\ UNCHANGED <<atlasSignInState, attemptId, AttemptStateMap, immediates>>
  ELSE LET id == attemptId + 1 IN
       /\ attemptId' = id
       /\ AttemptStateMap' = Append(AttemptStateMap, NewAttempt(TRUE))
       /\ atlasSignInState' = reducer(atlasSignInState, ActId("AttemptStart", id))
       /\ immediates' = Append(immediates, fn)
       /\ lastCall' = Call(op, id, "started")

signInWithPrompt(op, fn) ==
  IF atlasSignInState.state = "success"
  THEN /\ lastCall' = Call(op, NullId, "noop")
       /\ UNCHANGED <<atlasSignInState, attemptId, AttemptStateMap, immediates>>
  ELSE startAttempt(op, fn)

SignInWithModalPrompt ==
  /\ CallerMayRun
  /\ signInWithPrompt("signInWithModalPrompt", "openSignInModal")
  /\ Invoke
  /\ UNCHANGED <<microtasks, signInCalls, restoreCalls>>

SignInWithoutPrompt ==
  /\ CallerMayRun
  /\ signInWithPrompt("signInWithoutPrompt", "signIn")
  /\ Invoke
  /\ UNCHANGED <<microtasks, signInCalls, restoreCalls>>

\* signIn(), up to its first await: getAttempt(currentAttemptId) (which creates an
\* attempt when the id is null), dispatch Start, throwIfAborted, isAuthenticated().
signIn(op) ==
  LET cur == atlasSignInState.currentAttemptId
      fresh == cur = NullId
      id == IF fresh THEN attemptId + 1 ELSE cur
      map == IF fresh THEN Append(AttemptStateMap, NewAttempt(FALSE))
             ELSE AttemptStateMap
  IN /\ attemptId' = IF fresh THEN id ELSE attemptId
     /\ AttemptStateMap' = map
     /\ atlasSignInState' = reducer(atlasSignInState, Act("Start"))
     /\ IF map[id].aborted
        THEN /\ signInCalls' = signInCalls
             /\ lastCall' = Call(op, id, "aborted")
        ELSE /\ signInCalls' =
                  signInCalls (+) SetToBag({Suspended(id, "isAuthenticated")})
             /\ lastCall' = Call(op, id, "suspended")

\* signIn() dispatched by the sign-in modal.
SignIn ==
  /\ CallerMayRun
  /\ signIn("signIn")
  /\ Invoke
  /\ UNCHANGED <<microtasks, immediates, restoreCalls>>

\* The setImmediate callback of startAttempt runs.
RunImmediate ==
  /\ TaskMayRun
  /\ immediates # <<>>
  /\ immediates' = Tail(immediates)
  /\ IF Head(immediates) = "openSignInModal"
     THEN /\ atlasSignInState' = reducer(atlasSignInState, Act("OpenSignInModal"))
          /\ lastCall' = Call("immediate:openSignInModal", NullId, "ok")
          /\ UNCHANGED <<attemptId, AttemptStateMap, signInCalls>>
     ELSE signIn("immediate:signIn")
  /\ Resume
  /\ UNCHANGED <<microtasks, restoreCalls>>

\* signIn(): atlasService.isAuthenticated({signal}) returns b.
IsAuthenticatedReturns(call, b) ==
  /\ TaskMayRun
  /\ call.pc = "isAuthenticated"
  /\ signInCalls' =
       (signInCalls (-) SetToBag({call}))
         (+) SetToBag({Suspended(call.id, IF b THEN "getUserInfo" ELSE "signIn")})
  /\ lastCall' = Call("signIn:isAuthenticated", call.id, IF b THEN "true" ELSE "false")
  /\ Resume
  /\ UNCHANGED <<atlasSignInState, attemptId, AttemptStateMap, microtasks,
                 immediates, restoreCalls>>

\* signIn(): atlasService.signIn({signal}) returns.
SignInReturns(call) ==
  /\ TaskMayRun
  /\ call.pc = "signIn"
  /\ signInCalls' =
       (signInCalls (-) SetToBag({call})) (+) SetToBag({Suspended(call.id, "getUserInfo")})
  /\ lastCall' = Call("signIn:signIn", call.id, "ok")
  /\ Resume
  /\ UNCHANGED <<atlasSignInState, attemptId, AttemptStateMap, microtasks,
                 immediates, restoreCalls>>

\* signIn(): atlasService.getUserInfo({signal}) returns: toast, dispatch Success,
\* emit 'signed-in', resolve().
GetUserInfoReturns(call) ==
  LET id == call.id IN
  /\ TaskMayRun
  /\ call.pc = "getUserInfo"
  /\ signInCalls' = signInCalls (-) SetToBag({call})
  /\ atlasSignInState' = reducer(atlasSignInState, Act("Success"))
  /\ AttemptStateMap' = Settle(AttemptStateMap, id, "resolved")
  /\ microtasks' = microtasks \o SettleReactions(AttemptStateMap, id)
  /\ lastCall' = CallToast("signIn:success", id,
                           IF AttemptStateMap[id].promise = "pending"
                           THEN "resolved" ELSE "already-settled",
                           "atlas-sign-in-success")
  /\ Resume
  /\ UNCHANGED <<attemptId, immediates, restoreCalls>>

signalAborted_never(id) == FALSE

\* signIn(): signal.aborted of the attempt the call took at its start.
signalAborted(id) == AttemptStateMap[id].aborted

\* signIn(): one of the awaited identity-service calls throws; the catch block.
IdentityServiceThrows(call, msg) ==
  LET id == call.id IN
  /\ TaskMayRun
  /\ signInCalls' = signInCalls (-) SetToBag({call})
  /\ IF signalAborted(id)
     THEN /\ lastCall' = Call("signIn:catch", id, "ignored")
          /\ UNCHANGED <<atlasSignInState, AttemptStateMap, microtasks>>
     ELSE /\ atlasSignInState' = reducer(atlasSignInState, ActError("Error", msg))
          /\ AttemptStateMap' = Settle(AttemptStateMap, id, "rejected")
          /\ microtasks' = microtasks \o SettleReactions(AttemptStateMap, id)
          /\ lastCall' = CallToast("signIn:catch", id, msg, "atlas-sign-in-error")
  /\ Resume
  /\ UNCHANGED <<attemptId, immediates, restoreCalls>>

\* cancelSignIn(reason): no-op without a current attempt; else abort the token,
\* reject the completion handle and dispatch Cancel.
cancelSignIn(op) ==
  LET cur == atlasSignInState.currentAttemptId IN
  IF cur = NullId
  THEN /\ lastCall' = Call(op, NullId, "noop")
       /\ UNCHANGED <<atlasSignInState, AttemptStateMap, microtasks>>
  ELSE /\ AttemptStateMap' =
            Settle([AttemptStateMap EXCEPT ![cur].aborted = TRUE], cur, "rejected")
       /\ microtasks' = microtasks \o SettleReactions(AttemptStateMap, cur)
       /\ atlasSignInState' = reducer(atlasSignInState, Act("Cancel"))
       /\ lastCall' = Call(op, cur,
                           IF AttemptStateMap[cur].promise = "pending"
                           THEN "rejected" ELSE "already-settled")

CancelSignIn ==
  /\ CallerMayRun
  /\ cancelSignIn("cancelSignIn")
  /\ Invoke
  /\ UNCHANGED <<attemptId, immediates, signInCalls, restoreCalls>>

\* closeSignInModal(reason): cancelSignIn(reason), then dispatch CloseSignInModal.
CloseSignInModal ==
  LET cur == atlasSignInState.currentAttemptId
      afterCancel == IF cur = NullId THEN atlasSignInState
                     ELSE reducer(atlasSignInState, Act("Cancel"))
  IN /\ CallerMayRun
     /\ IF cur = NullId
        THEN UNCHANGED <<AttemptStateMap, microtasks>>
        ELSE /\ AttemptStateMap' =
                  Settle([AttemptStateMap EXCEPT ![cur].aborted = TRUE], cur, "rejected")
             /\ microtasks' = microtasks \o SettleReactions(AttemptStateMap, cur)
     /\ atlasSignInState' = reducer(afterCancel, Act("CloseSignInModal"))
     /\ lastCall' = Call("closeSignInModal", cur, "ok")
     /\ Invoke
     /\ UNCHANGED <<attemptId, immediates, signInCalls, restoreCalls>>

TokenRefreshFailed ==
  /\ CallerMayRun
  /\ atlasSignInState' = reducer(atlasSignInState, Act("TokenRefreshFailed"))
  /\ lastCall' = Call("tokenRefreshFailed", NullId, "ok")
  /\ Invoke
  /\ UNCHANGED <<attemptId, AttemptStateMap, microtasks, immediates, signInCalls,
                 restoreCalls>>

SignedOut ==
  /\ CallerMayRun
  /\ atlasSignInState' = reducer(atlasSignInState, Act("SignedOut"))
  /\ lastCall' = Call("signedOut", NullId, "ok")
  /\ Invoke
  /\ UNCHANGED <<attemptId, AttemptStateMap, microtasks, immediates, signInCalls,
                 restoreCalls>>

\* The `finally` reaction of a settled attempt promise: dispatch AttemptEnd.
AttemptEnd ==
  /\ microtasks # <<>>
  /\ microtasks' = Tail(microtasks)
  /\ atlasSignInState' = reducer(atlasSignInState, ActId("AttemptEnd", Head(microtasks)))
  /\ lastCall' = Call("attemptEnd", Head(microtasks), "ok")
  /\ Resume
  /\ UNCHANGED <<attemptId, AttemptStateMap, immediates, signInCalls, restoreCalls>>

SignInNext ==
  \/ RestoreSignInState
  \/ \E outcome \in {"true", "false", "throw"} : RestoreReturns(outcome)
  \/ SignInWithModalPrompt
  \/ SignInWithoutPrompt
  \/ SignIn
  \/ RunImmediate
  \/ \E call \in BagToSet(signInCalls), b \in BOOLEAN : IsAuthenticatedReturns(call, b)
  \/ \E call \in BagToSet(signInCalls) : SignInReturns(call)
  \/ \E call \in BagToSet(signInCalls) : GetUserInfoReturns(call)
  \/ \E call \in BagToSet(signInCalls), msg \in Messages : IdentityServiceThrows(call, msg)
  \/ CancelSignIn
  \/ CloseSignInModal
  \/ TokenRefreshFailed
  \/ SignedOut
  \/ AttemptEnd

\* ------------------------------------------------------------------------
\* useConnections: data
\* ------------------------------------------------------------------------
NoId == 0             \* activeConnectionId: undefined
NoAttempt == 0        \* connectionAttempt: null / ref.current: undefined
Absent == -1          \* lastUsed: undefined
NoText == "null"      \* connectionErrorMessage, verificationUrl, userCode: null
MAX_RECENT_CONNECTIONS_LENGTH == 10

\* A connection string, as far as the hook looks at it: whether
\* `new ConnectionString(s)` accepts it, and its authMechanism search parameter
\* (the empty sequence when the parameter is missing).
ConnectionString(wellFormed, authMechanism) ==
  [wellFormed |-> wellFormed, authMechanism |-> authMechanism]

Localhost == ConnectionString(TRUE, <<>>)          \* 'mongodb://localhost:27017'
OidcMixedCase ==
  ConnectionString(TRUE, <<"M", "o", "n", "g", "o", "d", "b", "-", "O", "i", "d", "c">>)
Malformed == ConnectionString(FALSE, <<>>)

LowerLetters ==
  <<"a", "b", "c", "d", "e", "f", "g", "h", "i", "j", "k", "l", "m",
    "n", "o", "p", "q", "r", "s", "t", "u", "v", "w", "x", "y", "z">>
UpperLetters ==
  <<"A", "B", "C", "D", "E", "F", "G", "H", "I", "J", "K", "L", "M",
    "N", "O", "P", "Q", "R", "S", "T", "U", "V", "W", "X", "Y", "Z">>

toUpperCase(str) ==
  [i \in DOMAIN str |->
     IF \E k \in DOMAIN LowerLetters : LowerLetters[k] = str[i]
     THEN UpperLetters[CHOOSE k \in DOMAIN LowerLetters : LowerLetters[k] = str[i]]
     ELSE str[i]]

isOIDCAuth_caseSensitive(connectionString) ==
  connectionString.authMechanism
    = <<"M", "O", "N", "G", "O", "D", "B", "-", "O", "I", "D", "C">>

isOIDCAuth(connectionString) ==
  toUpperCase(connectionString.authMechanism)
    = <<"M", "O", "N", "G", "O", "D", "B", "-", "O", "I", "D", "C">>

ensureWellFormedConnectionString_accepting(connectionString) == TRUE

\* ensureWellFormedConnectionString throws exactly when the string is malformed.
ensureWellFormedConnectionString(connectionString) == connectionString.wellFormed

\* ConnectionInfo: `favorite` tells whether the favorite object is present and
\* `name` is favorite.name (a sequence of text pieces, empty when missing).
ConnectionInfo(id, connectionString, favorite, name, lastUsed) ==
  [id |-> id, connectionString |-> connectionString, favorite |-> favorite,
   name |-> name, lastUsed |-> lastUsed]

NoInfo == ConnectionInfo(NoId, Malformed, FALSE, <<>>, Absent)

\* uuidv4(): the n-th id handed out; never an id of a stored or submitted profile.
FirstUuid == 100
uuidv4(n) == FirstUuid + n

createNewConnectionInfo(n) == ConnectionInfo(uuidv4(n), Localhost, FALSE, <<>>, Absent)

defaultConnectionsState ==
  [activeConnectionId |-> NoId,
   activeConnectionInfo |-> createNewConnectionInfo(0),
   connectingStatusText |-> [title |-> NoId, oidcHint |-> FALSE],
   connections |-> <<>>,
   connectionAttempt |-> NoAttempt,
   connectionErrorMessage |-> NoText,
   oidcDeviceAuthVerificationUrl |-> NoText,
   oidcDeviceAuthUserCode |-> NoText]

connectionsReducer_errored_noMessage(s, action) ==
  [s EXCEPT !.connectionAttempt = NoAttempt, !.connectionErrorMessage = NoText]

\* connectionsReducer, case 'connection-attempt-errored'
connectionsReducer_errored(s, action) ==
  [s EXCEPT !.connectionAttempt = NoAttempt,
            !.connectionErrorMessage = action.connectionErrorMessage]

connectionsReducer(s, action) ==
  CASE action.type = "attempt-connect" ->
         [s EXCEPT !.connectionAttempt = action.connectionAttempt,
                   !.connectingStatusText = action.connectingStatusText,
                   !.connectionErrorMessage = NoText,
                   !.oidcDeviceAuthVerificationUrl = NoText,
                   !.oidcDeviceAuthUserCode = NoText]
    [] action.type = "cancel-connection-attempt" ->
         [s EXCEPT !.connectionAttempt = NoAttempt, !.connectionErrorMessage = NoText]
    [] action.type = "connection-attempt-succeeded" ->
         [s EXCEPT !.connectionAttempt = NoAttempt, !.connectionErrorMessage = NoText]
    [] action.type = "connection-attempt-errored" -> connectionsReducer_errored(s, action)
    [] action.type = "oidc-attempt-connect-notify-device-auth" ->
         [s EXCEPT !.oidcDeviceAuthVerificationUrl = action.verificationUrl,
                   !.oidcDeviceAuthUserCode = action.userCode]
    [] action.type \in {"set-active-connection", "new-connection"} ->
         [s EXCEPT !.activeConnectionId = action.connectionInfo.id,
                   !.activeConnectionInfo = action.connectionInfo,
                   !.connectionErrorMessage = NoText]
    [] action.type = "set-connections" ->
         [s EXCEPT !.connections = action.connections,
                   !.connectionErrorMessage = NoText]
    [] action.type = "set-connections-and-select" ->
         [s EXCEPT !.connections = action.connections,
                   !.activeConnectionId = action.activeConnectionInfo.id,
                   !.activeConnectionInfo = action.activeConnectionInfo,
                   !.connectionErrorMessage = NoText]
    [] OTHER -> s

\* Array.prototype.filter
filter(seq, Keep(_)) == SelectSeq(seq, Keep)

getTime_absentNewest(connectionInfo) ==
  IF connectionInfo.lastUsed = Absent
  THEN MAX_RECENT_CONNECTIONS_LENGTH ELSE connectionInfo.lastUsed

getTime(connectionInfo) ==
  IF connectionInfo.lastUsed = Absent THEN 0 ELSE connectionInfo.lastUsed

\* Array.prototype.sort with the comparator (a, b) => bTime - aTime: a stable
\* sort, so x goes behind every element that is not older than it.
RECURSIVE sortByLastUsed(_)
sortByLastUsed(seq) ==
  IF seq = <<>> THEN <<>>
  ELSE LET sorted == sortByLastUsed(SubSeq(seq, 1, Len(seq) - 1))
           x == seq[Len(seq)]
           before == {i \in DOMAIN sorted : getTime(sorted[i]) >= getTime(x)}
           n == Cardinality(before)
       IN SubSeq(sorted, 1, n) \o <<x>> \o SubSeq(sorted, n + 1, Len(sorted))

IsRecent(connectionInfo) == ~connectionInfo.favorite
IsFavorite_any(connectionInfo) == TRUE

IsFavorite(connectionInfo) == connectionInfo.favorite

recentConnections_unsorted(connections) == filter(connections, IsRecent)

recentConnections(connections) == sortByLastUsed(filter(connections, IsRecent))

\* connectionStorage.load(id): the stored profile with that id, if any.
Stored(id) == {info \in storage : info.id = id}
\* connectionStorage.save(info) and connectionStorage.delete(info), when they succeed.
StorageSave(store, info) == {other \in store : other.id # info.id} \cup {info}
StorageDelete(store, info) == {other \in store : other.id # info.id}
\* connectionStorage.loadAll(): the stored profiles in the order of their ids.
RECURSIVE loadAll(_)
loadAll(store) ==
  IF store = {} THEN <<>>
  ELSE LET first == CHOOSE info \in store : \A other \in store : info.id <= other.id
       IN <<first>> \o loadAll(store \ {first})

Range(seq) == {seq[i] : i \in DOMAIN seq}

\* A suspended async call of the hook: the operation, the collaborator call it
\* awaits (pc) with the profile handed to it (arg), and the values its closure
\* captured when it was called.
SuspendedCall(op, pc, info, attempt, save, connections, activeId) ==
  [op |-> op, pc |-> pc, info |-> info, attempt |-> attempt, save |-> save,
   connections |-> connections, activeConnectionId |-> activeId,
   toBeSaved |-> NoInfo, arg |-> NoInfo]

One(call) == SetToBag({call})

\* ------------------------------------------------------------------------
\* useConnections: the hook's operations
\* ------------------------------------------------------------------------
\* Profiles the storage holds when the hook mounts.
SavedFavorite == ConnectionInfo(1, Localhost, TRUE, <<"X">>, 1)
SavedRecent == ConnectionInfo(2, Localhost, FALSE, <<>>, Absent)
InitialStorage == {SavedFavorite, SavedRecent}
\* The same with nine more recents, which fill the list of recents up to
\* MAX_RECENT_CONNECTIONS_LENGTH; the hook's operations are called on the others.
Fillers ==
  {ConnectionInfo(10 + k, Localhost, FALSE, <<>>, 1 + k) :
     k \in 1..(MAX_RECENT_CONNECTIONS_LENGTH - 1)}
FullStorage == InitialStorage \cup Fillers

\* Profiles the connection form can submit besides those the hook holds: the
\* stored favorite edited, a profile never seen, and one whose string is malformed.
Forms ==
  {ConnectionInfo(1, OidcMixedCase, TRUE, <<"Y">>, Absent),
   ConnectionInfo(3, Localhost, FALSE, <<>>, Absent),
   ConnectionInfo(4, Malformed, TRUE, <<"X">>, Absent)}

Listed == Range(connectionsState.connections) \ Fillers
Inputs == Forms \cup Listed

ConnectionsInit(stores) ==
  /\ connectionsState = defaultConnectionsState
  /\ storage \in stores
  /\ isConnected = FALSE
  /\ connectingConnectionAttempt = NoAttempt
  /\ attempts = <<>>
  /\ uuid = 1
  /\ now = MAX_RECENT_CONNECTIONS_LENGTH
  \* the mount effect has called loadConnections()
  /\ suspended = One(SuspendedCall("loadConnections", "loadAll", NoInfo, NoAttempt,
                                   FALSE, <<>>, NoId))

ConnInvoke ==
  /\ calls < MaxHookCalls
  /\ calls' = calls + 1
  /\ UNCHANGED signInVars

ConnResume ==
  /\ calls' = calls
  /\ UNCHANGED signInVars

\* The closure of an operation called now: the connections and the active id of
\* the latest render.
Closure(op, pc, info, attempt, save) ==
  SuspendedCall(op, pc, info, attempt, save, connectionsState.connections,
                connectionsState.activeConnectionId)

\* loadConnections(): connectionStorage.loadAll() returns or throws.
LoadAllReturns(call, ok) ==
  /\ call.op = "loadConnections"
  /\ suspended' = suspended (-) One(call)
  /\ connectionsState' =
       IF ok THEN connectionsReducer(connectionsState,
                    [type |-> "set-connections", connections |-> loadAll(storage)])
       ELSE connectionsState
  /\ lastCall' = Call("loadConnections:resumed", NoId, IF ok THEN "ok" ELSE "failed")
  /\ ConnResume
  /\ UNCHANGED <<storage, isConnected, connectingConnectionAttempt, attempts, uuid, now>>

ReloadConnections ==
  /\ suspended' = suspended (+) One(Closure("loadConnections", "loadAll", NoInfo,
                                            NoAttempt, FALSE))
  /\ lastCall' = Call("reloadConnections", NoId, "suspended")
  /\ ConnInvoke
  /\ UNCHANGED <<connectionsState, storage, isConnected, connectingConnectionAttempt,
                 attempts, uuid, now>>

\* connect(), from the isOIDCAuth() call to the await of the connector: s is the
\* reducer state so far, ref the value of connectingConnectionAttempt.current and
\* others the calls that stay suspended.
attemptConnect(op, s, ref, others, call) ==
  IF ~call.info.connectionString.wellFormed
  THEN \* new ConnectionString() throws: the catch block
       /\ connectingConnectionAttempt' = NoAttempt
       /\ connectionsState' =
            connectionsReducer(s, [type |-> "connection-attempt-errored",
                                   connectionErrorMessage |-> "Invalid connection string"])
       /\ suspended' = others
       /\ lastCall' = Call(op, call.info.id, "errored")
  ELSE /\ connectionsState' =
            connectionsReducer(s,
              [type |-> "attempt-connect",
               connectingStatusText |->
                 [title |-> call.info.id,
                  oidcHint |-> isOIDCAuth(call.info.connectionString)],
               connectionAttempt |-> call.attempt])
       /\ connectingConnectionAttempt' = ref
       /\ suspended' = others (+) One([call EXCEPT !.pc = "connector"])
       /\ lastCall' = Call(op, call.info.id, "attempting")

shouldSaveConnectionInfo_always(isFunction) == TRUE

\* connect(): shouldSaveConnectionInfo is false for a supplier and true for a
\* profile passed in.
shouldSaveConnectionInfo(isFunction) == ~isFunction

\* connect(info | supplier), up to its first await.
connect(isFunction, info) ==
  IF connectionsState.connectionAttempt # NoAttempt \/ isConnected
  THEN /\ lastCall' = Call("connect", info.id, "noop")
       /\ UNCHANGED <<connectionsState, connectingConnectionAttempt, attempts, suspended>>
  ELSE LET attempt == Len(attempts) + 1 IN
       /\ attempts' = Append(attempts, [closed |-> FALSE])
       /\ IF isFunction
          THEN /\ connectingConnectionAttempt' = attempt
               /\ suspended' =
                    suspended (+) One(Closure("connect", "supplier", NoInfo, attempt,
                                              shouldSaveConnectionInfo(TRUE)))
               /\ lastCall' = Call("connect", NoId, "supplier")
               /\ UNCHANGED connectionsState
          ELSE attemptConnect("connect", connectionsState, attempt, suspended,
                              Closure("connect", "start", info, attempt,
                                      shouldSaveConnectionInfo(FALSE)))

ConnectWithInfo(info) ==
  /\ connect(FALSE, info)
  /\ ConnInvoke
  /\ UNCHANGED <<storage, isConnected, uuid, now>>

ConnectWithSupplier ==
  /\ connect(TRUE, NoInfo)
  /\ ConnInvoke
  /\ UNCHANGED <<storage, isConnected, uuid, now>>

connect_noConnectionInfo_keepsRef(ref) == ref

\* connect(supplier), `if (!connectionInfo)`: the value given to
\* connectingConnectionAttempt.current before the return.
connect_noConnectionInfo(ref) == NoAttempt

\* connect(supplier): the supplier yields nothing, yields a profile or throws.
SupplierReturns(call, outcome, info) ==
  /\ call.op = "connect" /\ call.pc = "supplier"
  /\ CASE outcome = "nothing" ->
            /\ connectingConnectionAttempt' =
                 connect_noConnectionInfo(connectingConnectionAttempt)
            /\ suspended' = suspended (-) One(call)
            /\ lastCall' = Call("connect:supplier", NoId, "nothing")
            /\ UNCHANGED connectionsState
       [] outcome = "info" ->
            attemptConnect("connect:supplier",
              connectionsReducer(connectionsState,
                [type |-> "set-active-connection", connectionInfo |-> info]),
              connectingConnectionAttempt, suspended (-) One(call),
              [call EXCEPT !.info = info])
       [] outcome = "throws" ->
            /\ connectingConnectionAttempt' = NoAttempt
            /\ connectionsState' =
                 connectionsReducer(connectionsState,
                   [type |-> "connection-attempt-errored",
                    connectionErrorMessage |-> "E1"])
            /\ suspended' = suspended (-) One(call)
            /\ lastCall' = Call("connect:supplier", NoId, "errored")
  /\ ConnResume
  /\ UNCHANGED <<storage, isConnected, attempts, uuid, now>>

\* The connector reports an OIDC device flow while the connect call is pending.
NotifyDeviceFlow(call) ==
  /\ call.op = "connect" /\ call.pc = "connector"
  /\ isOIDCAuth(call.info.connectionString)
  /\ connectionsState' =
       connectionsReducer(connectionsState,
         [type |-> "oidc-attempt-connect-notify-device-auth",
          verificationUrl |-> "url", userCode |-> "code"])
  /\ lastCall' = Call("connect:notifyDeviceFlow", call.info.id, "ok")
  /\ ConnResume
  /\ UNCHANGED <<storage, isConnected, connectingConnectionAttempt, attempts, uuid, now,
                 suspended>>


\* onConnectSuccess(), after storage.load: saveConnectionInfo({...toBeSaved,
\* lastUsed: new Date()}) up to its await of storage.save. A malformed string makes
\* saveConnectionInfo toast and return false, and onConnectSuccess goes on.
afterSave(op, others, call, toast) ==
  LET recents == recentConnections(call.connections) IN
  IF /\ ~call.toBeSaved.favorite
     /\ call.toBeSaved.lastUsed = Absent
     /\ Len(recents) >= MAX_RECENT_CONNECTIONS_LENGTH
  THEN /\ suspended' = others (+) One([call EXCEPT !.pc = "delete",
                                                    !.arg = recents[Len(recents)]])
       /\ lastCall' = CallToast(op, call.toBeSaved.id, "evicting", toast)
  ELSE /\ suspended' = others
       /\ lastCall' = CallToast(op, call.toBeSaved.id, "done", toast)

attemptWasCancelled_onlyUndefined(dataService, closed) == ~dataService

\* connect(): `!newConnectionDataService || newConnectionAttempt.isClosed()`
attemptWasCancelled(dataService, closed) == ~dataService \/ closed

\* The connector call of a connect() returns a data service, returns undefined
\* (a cancelled attempt) or throws.
ConnectorReturns(call, outcome, msg) ==
  /\ call.op = "connect" /\ call.pc = "connector"
  /\ connectingConnectionAttempt' = NoAttempt
  /\ CASE outcome = "throws" ->
            /\ connectionsState' =
                 connectionsReducer(connectionsState,
                   [type |-> "connection-attempt-errored",
                    connectionErrorMessage |-> msg])
            /\ suspended' = suspended (-) One(call)
            /\ lastCall' = Call("connect:connector", call.info.id, "errored")
            /\ UNCHANGED isConnected
       [] outcome = "undefined" ->
            /\ attempts[call.attempt].closed
            /\ suspended' = suspended (-) One(call)
            /\ lastCall' = Call("connect:connector", call.info.id, "cancelled")
            /\ UNCHANGED <<connectionsState, isConnected>>
       [] outcome = "dataService" ->
            IF attemptWasCancelled(TRUE, attempts[call.attempt].closed)
            THEN /\ suspended' = suspended (-) One(call)
                 /\ lastCall' = Call("connect:connector", call.info.id, "cancelled")
                 /\ UNCHANGED <<connectionsState, isConnected>>
            ELSE /\ connectionsState' =
                      connectionsReducer(connectionsState,
                        [type |-> "connection-attempt-succeeded"])
                 \* onConnectSuccess: onConnected(), then storage.load unless the
                 \* profile came from the supplier
                 /\ isConnected' = TRUE
                 /\ suspended' =
                      IF call.save
                      THEN (suspended (-) One(call)) (+) One([call EXCEPT !.pc = "load"])
                      ELSE suspended (-) One(call)
                 /\ lastCall' = Call("connect:connector", call.info.id, "succeeded")
  /\ ConnResume
  /\ UNCHANGED <<storage, attempts, uuid, now>>

connectionInfoToBeSaved_incoming(found, connectionInfo) == connectionInfo

\* onConnectSuccess(): (await loadConnection(connectionInfo.id)) ?? connectionInfo,
\* where found holds the stored profile with that id, if there is one.
connectionInfoToBeSaved(found, connectionInfo) ==
  IF found # {} THEN CHOOSE info \in found : TRUE ELSE connectionInfo

withLastUsed_kept(connectionInfo, date) == connectionInfo

\* onConnectSuccess(): { ...connectionInfoToBeSaved, lastUsed: new Date() }
withLastUsed(connectionInfo, date) == [connectionInfo EXCEPT !.lastUsed = date]

\* onConnectSuccess(): connectionStorage.load(id) returns or throws.
ConnectLoadReturns(call, ok) ==
  /\ call.op = "connect" /\ call.pc = "load"
  /\ IF ~ok
     THEN /\ suspended' = suspended (-) One(call)
          /\ lastCall' = Call("connect:load", call.info.id, "failed")
          /\ UNCHANGED now
     ELSE LET loaded == connectionInfoToBeSaved(Stored(call.info.id), call.info)
              saving == [call EXCEPT !.toBeSaved = loaded,
                                     !.arg = withLastUsed(loaded, now + 1)]
          IN /\ now' = now + 1
             /\ IF ensureWellFormedConnectionString(saving.arg.connectionString)
                THEN /\ suspended' =
                          (suspended (-) One(call)) (+) One([saving EXCEPT !.pc = "save"])
                     /\ lastCall' = Call("connect:load", call.info.id, "saving")
                ELSE afterSave("connect:load", suspended (-) One(call), saving,
                               "save-connection-error")
  /\ ConnResume
  /\ UNCHANGED <<connectionsState, storage, isConnected, connectingConnectionAttempt,
                 attempts, uuid>>

\* onConnectSuccess(): connectionStorage.save() returns or throws.
ConnectSaveReturns(call, ok) ==
  /\ call.op = "connect" /\ call.pc = "save"
  /\ storage' = IF ok THEN StorageSave(storage, call.arg) ELSE storage
  /\ afterSave("connect:save", suspended (-) One(call), call,
               IF ok THEN "none" ELSE "save-connection-error")
  /\ ConnResume
  /\ UNCHANGED <<connectionsState, isConnected, connectingConnectionAttempt, attempts,
                 uuid, now>>

\* onConnectSuccess(): the connectionStorage.delete() of the eviction returns or throws.
ConnectDeleteReturns(call, ok) ==
  /\ call.op = "connect" /\ call.pc = "delete"
  /\ storage' = IF ok THEN StorageDelete(storage, call.arg) ELSE storage
  /\ suspended' = suspended (-) One(call)
  /\ lastCall' = Call("connect:delete", call.arg.id, IF ok THEN "done" ELSE "failed")
  /\ ConnResume
  /\ UNCHANGED <<connectionsState, isConnected, connectingConnectionAttempt, attempts,
                 uuid, now>>

cancelConnectionAttempt ==
  /\ attempts' =
       IF connectionsState.connectionAttempt # NoAttempt
       THEN [attempts EXCEPT ![connectionsState.connectionAttempt].closed = TRUE]
       ELSE attempts
  /\ connectionsState' =
       connectionsReducer(connectionsState, [type |-> "cancel-connection-attempt"])
  /\ lastCall' = Call("cancelConnectionAttempt", NoId, "ok")

CancelConnectionAttempt ==
  /\ cancelConnectionAttempt
  /\ ConnInvoke
  /\ UNCHANGED <<storage, isConnected, connectingConnectionAttempt, uuid, now, suspended>>

\* The cleanup of the mount effect: the attempt held by
\* connectingConnectionAttempt.current is cancelled unless it is closed.
Unmount ==
  /\ attempts' =
       IF /\ connectingConnectionAttempt # NoAttempt
          /\ ~attempts[connectingConnectionAttempt].closed
       THEN [attempts EXCEPT ![connectingConnectionAttempt].closed = TRUE]
       ELSE attempts
  /\ lastCall' = Call("unmount", NoId, "ok")
  /\ ConnResume
  /\ UNCHANGED <<connectionsState, storage, isConnected, connectingConnectionAttempt,
                 uuid, now, suspended>>

CreateNewConnection ==
  /\ connectionsState' =
       connectionsReducer(connectionsState,
         [type |-> "new-connection", connectionInfo |-> createNewConnectionInfo(uuid)])
  /\ uuid' = uuid + 1
  /\ lastCall' = Call("createNewConnection", uuidv4(uuid), "ok")
  /\ ConnInvoke
  /\ UNCHANGED <<storage, isConnected, connectingConnectionAttempt, attempts, now,
                 suspended>>

setActiveConnectionById(newConnectionId) ==
  LET found == {i \in DOMAIN connectionsState.connections :
                  connectionsState.connections[i].id = newConnectionId}
      first == CHOOSE i \in found : \A j \in found : i <= j
  IN IF found # {}
     THEN connectionsReducer(connectionsState,
            [type |-> "set-active-connection",
             connectionInfo |-> connectionsState.connections[first]])
     ELSE connectionsState

SetActiveConnectionById(newConnectionId) ==
  /\ connectionsState' = setActiveConnectionById(newConnectionId)
  /\ lastCall' = Call("setActiveConnectionById", newConnectionId, "ok")
  /\ ConnInvoke
  /\ UNCHANGED <<storage, isConnected, connectingConnectionAttempt, attempts, uuid, now,
                 suspended>>

\* The parent reports that the data service was disconnected (the isConnected prop).
Disconnected ==
  /\ isConnected
  /\ isConnected' = FALSE
  /\ lastCall' = Call("disconnected", NoId, "ok")
  /\ ConnInvoke
  /\ UNCHANGED <<connectionsState, storage, connectingConnectionAttempt, attempts, uuid,
                 now, suspended>>

\* saveConnection(info), up to the await inside saveConnectionInfo().
SaveConnection(info) ==
  /\ IF ensureWellFormedConnectionString(info.connectionString)
     THEN /\ suspended' =
               suspended (+) One([Closure("saveConnection", "save", info, NoAttempt, FALSE)
                                    EXCEPT !.arg = info])
          /\ lastCall' = Call("saveConnection", info.id, "suspended")
     ELSE /\ suspended' = suspended
          /\ lastCall' = CallToast("saveConnection", info.id, "not-saved",
                                   "save-connection-error")
  /\ ConnInvoke
  /\ UNCHANGED <<connectionsState, storage, isConnected, connectingConnectionAttempt,
                 attempts, uuid, now>>

\* saveConnection(): the merge of the saved profile into the captured connections.
mergeSaved(connections, info) ==
  LET found == {i \in DOMAIN connections : connections[i].id = info.id}
      existingConnectionIndex == CHOOSE i \in found : \A j \in found : i <= j
  IN IF found # {}
     THEN [connections EXCEPT ![existingConnectionIndex] = info]
     ELSE Append(connections, info)

\* saveConnection(): connectionStorage.save() returns or throws.
SaveConnectionReturns(call, ok) ==
  /\ call.op = "saveConnection"
  /\ suspended' = suspended (-) One(call)
  /\ storage' = IF ok THEN StorageSave(storage, call.arg) ELSE storage
  /\ IF ~ok
     THEN /\ lastCall' = CallToast("saveConnection:resumed", call.info.id, "not-saved",
                                   "save-connection-error")
          /\ UNCHANGED connectionsState
     ELSE /\ connectionsState' =
               IF call.activeConnectionId = call.info.id
               THEN connectionsReducer(connectionsState,
                      [type |-> "set-connections-and-select",
                       connections |-> mergeSaved(call.connections, call.info),
                       activeConnectionInfo |-> call.info])
               ELSE connectionsReducer(connectionsState,
                      [type |-> "set-connections",
                       connections |-> mergeSaved(call.connections, call.info)])
          /\ lastCall' = Call("saveConnection:resumed", call.info.id, "saved")
  /\ ConnResume
  /\ UNCHANGED <<isConnected, connectingConnectionAttempt, attempts, uuid, now>>

\* removeConnection(info), up to the await of connectionStorage.delete().
RemoveConnection(info) ==
  /\ suspended' =
       suspended (+) One([Closure("removeConnection", "delete", info, NoAttempt, FALSE)
                            EXCEPT !.arg = info])
  /\ lastCall' = Call("removeConnection", info.id, "suspended")
  /\ ConnInvoke
  /\ UNCHANGED <<connectionsState, storage, isConnected, connectingConnectionAttempt,
                 attempts, uuid, now>>

\* removeConnection(): the dispatches after the delete, with the captured
\* connections and activeConnectionId.
removeConnection(call, n) ==
  LET removed == connectionsReducer(connectionsState,
                   [type |-> "set-connections",
                    connections |-> filter(call.connections, LAMBDA conn : conn.id # call.info.id)])
  IN IF call.activeConnectionId = call.info.id
     THEN connectionsReducer(removed,
            [type |-> "set-active-connection",
             connectionInfo |-> createNewConnectionInfo(n)])
     ELSE removed

\* removeConnection(): connectionStorage.delete() returns or throws (then the
\* promise of removeConnection rejects and nothing is dispatched).
RemoveConnectionReturns(call, ok) ==
  /\ call.op = "removeConnection"
  /\ suspended' = suspended (-) One(call)
  /\ storage' = IF ok THEN StorageDelete(storage, call.arg) ELSE storage
  /\ connectionsState' = IF ok THEN removeConnection(call, uuid) ELSE connectionsState
  /\ uuid' = IF ok /\ call.activeConnectionId = call.info.id THEN uuid + 1 ELSE uuid
  /\ lastCall' = Call("removeConnection:resumed", call.info.id,
                      IF ok THEN "removed" ELSE "failed")
  /\ ConnResume
  /\ UNCHANGED <<isConnected, connectingConnectionAttempt, attempts, now>>

\* duplicateConnection(): the copy with a new id and ' (copy)' added to a
\* non-empty favorite name.
duplicate(info, n) ==
  [info EXCEPT !.id = uuidv4(n),
               !.name = IF info.favorite /\ info.name # <<>>
                        THEN Append(info.name, " (copy)") ELSE info.name]

\* duplicateConnection(): the callback given to saveConnectionInfo(...).then,
\* which runs whatever saveConnectionInfo resolved to.
duplicateConnection(s, connections, copy, saved) ==
  connectionsReducer(s,
    [type |-> "set-connections-and-select",
     connections |-> Append(connections, copy),
     activeConnectionInfo |-> copy])

\* duplicateConnection(info), up to the await inside saveConnectionInfo().
DuplicateConnection(info) ==
  LET copy == duplicate(info, uuid) IN
  /\ uuid' = uuid + 1
  /\ IF ensureWellFormedConnectionString(copy.connectionString)
     THEN /\ suspended' =
               suspended (+) One([Closure("duplicateConnection", "save", info, NoAttempt,
                                          FALSE) EXCEPT !.arg = copy])
          /\ lastCall' = Call("duplicateConnection", copy.id, "suspended")
          /\ UNCHANGED connectionsState
     ELSE /\ suspended' = suspended
          /\ connectionsState' =
               duplicateConnection(connectionsState, connectionsState.connections,
                                   copy, FALSE)
          /\ lastCall' = CallToast("duplicateConnection", copy.id, "not-saved",
                                   "save-connection-error")
  /\ ConnInvoke
  /\ UNCHANGED <<storage, isConnected, connectingConnectionAttempt, attempts, now>>

\* duplicateConnection(): connectionStorage.save() returns or throws.
DuplicateConnectionReturns(call, ok) ==
  /\ call.op = "duplicateConnection"
  /\ suspended' = suspended (-) One(call)
  /\ storage' = IF ok THEN StorageSave(storage, call.arg) ELSE storage
  /\ connectionsState' =
       duplicateConnection(connectionsState, call.connections, call.arg, ok)
  /\ lastCall' = CallToast("duplicateConnection:resumed", call.arg.id,
                           IF ok THEN "saved" ELSE "not-saved",
                           IF ok THEN "none" ELSE "save-connection-error")
  /\ ConnResume
  /\ UNCHANGED <<isConnected, connectingConnectionAttempt, attempts, uuid, now>>

\* removeAllRecentsConnections(), up to the await of Promise.all(deletes).
RemoveAllRecentsConnections ==
  /\ suspended' =
       suspended (+) One(Closure("removeAllRecentsConnections", "delete", NoInfo,
                                 NoAttempt, FALSE))
  /\ lastCall' = Call("removeAllRecentsConnections", NoId, "suspended")
  /\ ConnInvoke
  /\ UNCHANGED <<connectionsState, storage, isConnected, connectingConnectionAttempt,
                 attempts, uuid, now>>

\* removeAllRecentsConnections(): every delete has returned, or one of them threw
\* (the deletes in `deleted` were done, and nothing is dispatched).
RemoveAllRecentsReturns(call, ok, deleted) ==
  LET recents == Range(filter(call.connections, IsRecent)) IN
  /\ call.op = "removeAllRecentsConnections"
  /\ deleted \subseteq recents
  /\ ok => deleted = recents
  /\ ~ok => deleted # recents
  /\ suspended' = suspended (-) One(call)
  /\ storage' = {info \in storage : \A gone \in deleted : gone.id # info.id}
  /\ connectionsState' =
       IF ok
       THEN connectionsReducer(connectionsState,
              [type |-> "set-connections",
               connections |-> filter(call.connections, IsFavorite)])
       ELSE connectionsState
  /\ lastCall' = Call("removeAllRecentsConnections:resumed", NoId,
                      IF ok THEN "removed" ELSE "failed")
  /\ ConnResume
  /\ UNCHANGED <<isConnected, connectingConnectionAttempt, attempts, uuid, now>>

Pending == BagToSet(suspended)

\* The connection lifecycle: connect, its continuations, cancel.
ConnectNext ==
  \/ \E call \in Pending, ok \in BOOLEAN : LoadAllReturns(call, ok)
  \/ ReloadConnections
  \/ \E info \in Inputs : ConnectWithInfo(info)
  \/ ConnectWithSupplier
  \/ \E call \in Pending, info \in Inputs :
       \E outcome \in {"nothing", "info", "throws"} : SupplierReturns(call, outcome, info)
  \/ \E call \in Pending : NotifyDeviceFlow(call)
  \/ \E call \in Pending, msg \in Messages :
       \E outcome \in {"dataService", "undefined", "throws"} :
         ConnectorReturns(call, outcome, msg)
  \/ \E call \in Pending, ok \in BOOLEAN : ConnectLoadReturns(call, ok)
  \/ \E call \in Pending, ok \in BOOLEAN : ConnectSaveReturns(call, ok)
  \/ \E call \in Pending, ok \in BOOLEAN : ConnectDeleteReturns(call, ok)
  \/ CancelConnectionAttempt
  \/ Disconnected

\* The management of the profile collection.
ProfilesNext ==
  \/ \E call \in Pending, ok \in BOOLEAN : LoadAllReturns(call, ok)
  \/ ReloadConnections
  \/ CreateNewConnection
  \/ \E info \in Inputs : SetActiveConnectionById(info.id)
  \/ \E info \in Inputs : SaveConnection(info)
  \/ \E call \in Pending, ok \in BOOLEAN : SaveConnectionReturns(call, ok)
  \/ \E info \in Listed : RemoveConnection(info)
  \/ \E call \in Pending, ok \in BOOLEAN : RemoveConnectionReturns(call, ok)
  \/ \E info \in Inputs : DuplicateConnection(info)
  \/ \E call \in Pending, ok \in BOOLEAN : DuplicateConnectionReturns(call, ok)
  \/ RemoveAllRecentsConnections
  \/ \E call \in Pending, ok \in BOOLEAN :
       \E deleted \in SUBSET Range(call.connections) :
         RemoveAllRecentsReturns(call, ok, deleted)

\* ------------------------------------------------------------------------
\* Specifications
\* ------------------------------------------------------------------------
Bookkeeping ==
  /\ calls = 0
  /\ lastCall = Call("init", NullId, "ok")

\* The sign-in store alone.
InitSignIn == SignInInit /\ ConnectionsInit({InitialStorage}) /\ Bookkeeping
SpecSignIn == InitSignIn /\ [][SignInNext]_vars

\* The same when the event loop runs what it holds: a queued promise reaction
\* runs, and the identity service answers a pending restore.
SpecSignInFair ==
  /\ SpecSignIn
  /\ WF_vars(AttemptEnd)
  /\ WF_vars(\E outcome \in {"true", "false", "throw"} : RestoreReturns(outcome))

\* The connections hook alone: the connection lifecycle, over a storage with few
\* profiles or with a full list of recents; and the profile collection.
InitConnect ==
  SignInInit /\ ConnectionsInit({InitialStorage, FullStorage}) /\ Bookkeeping
SpecConnect == InitConnect /\ [][ConnectNext]_vars

InitProfiles == SignInInit /\ ConnectionsInit({InitialStorage}) /\ Bookkeeping
SpecProfiles == InitProfiles /\ [][ProfilesNext]_vars

\* The teardown of the hook while connect() calls are suspended.
TeardownNext ==
  \/ \E info \in Inputs : ConnectWithInfo(info)
  \/ ConnectWithSupplier
  \/ \E call \in Pending, info \in Inputs :
       \E outcome \in {"nothing", "info", "throws"} : SupplierReturns(call, outcome, info)
  \/ \E call \in Pending, msg \in Messages :
       \E outcome \in {"dataService", "undefined", "throws"} :
         ConnectorReturns(call, outcome, msg)
  \/ CancelConnectionAttempt
  \/ Unmount

SpecTeardown == InitProfiles /\ [][TeardownNext]_vars

\* The status text of an attempt, over connection strings with various
\* authMechanism parameters.
Mechanisms ==
  {<<>>,
   <<"M", "O", "N", "G", "O", "D", "B", "-", "O", "I", "D", "C">>,
   <<"m", "o", "n", "g", "o", "d", "b", "-", "o", "i", "d", "c">>,
   <<"M", "o", "n", "g", "o", "D", "B", "-", "o", "I", "d", "c">>,
   <<"M", "O", "N", "G", "O", "D", "B", "-", "O", "I", "D">>,
   <<"M", "O", "N", "G", "O", "D", "B", "-", "O", "I", "D", "C", "S">>,
   <<"M", "O", "N", "G", "O", "D", "B", "_", "O", "I", "D", "C">>,
   <<"M", "O", "N", "G", "O", "D", "B", "-", "X", "5", "0", "9">>,
   <<"p", "l", "a", "i", "n">>}

MechanismForms ==
  {ConnectionInfo(3, ConnectionString(TRUE, mechanism), FALSE, <<>>, Absent) :
     mechanism \in Mechanisms}

StatusTextNext ==
  \/ \E call \in Pending, ok \in BOOLEAN : LoadAllReturns(call, ok)
  \/ \E info \in MechanismForms : ConnectWithInfo(info)
  \/ ConnectWithSupplier
  \/ \E call \in Pending, info \in MechanismForms :
       \E outcome \in {"nothing", "info", "throws"} : SupplierReturns(call, outcome, info)
  \/ \E call \in Pending : NotifyDeviceFlow(call)
  \/ \E call \in Pending : ConnectorReturns(call, "throws", "E1")

SpecStatusText == InitProfiles /\ [][StatusTextNext]_vars

\* The derived list of recents, over stored collections of up to MaxProfiles
\* profiles, favorite or not, with or without a lastUsed date.
MaxProfiles == 3

StoredProfile(id, favorite, lastUsed) ==
  ConnectionInfo(id, Localhost, favorite, IF favorite THEN <<"X">> ELSE <<>>, lastUsed)

Collections ==
  {{StoredProfile(id, kind[id][1], kind[id][2]) : id \in 1..MaxProfiles} :
     kind \in [1..MaxProfiles -> BOOLEAN \X ({Absent} \cup (1..MaxProfiles))]}

InitRecents == SignInInit /\ ConnectionsInit(Collections) /\ Bookkeeping

RecentsNext ==
  \/ \E call \in Pending, ok \in BOOLEAN : LoadAllReturns(call, ok)
  \/ ReloadConnections

SpecRecents == InitRecents /\ [][RecentsNext]_vars

\* removeAllRecentsConnections, over stored collections of MaxProfiles profiles,
\* each a favorite or not.
FavoriteCollections ==
  {{StoredProfile(id, favorite[id], Absent) : id \in 1..MaxProfiles} :
     favorite \in [1..MaxProfiles -> BOOLEAN]}

InitRemoveAll == SignInInit /\ ConnectionsInit(FavoriteCollections) /\ Bookkeeping

RemoveAllNext ==
  \/ \E call \in Pending, ok \in BOOLEAN : LoadAllReturns(call, ok)
  \/ ReloadConnections
  \/ RemoveAllRecentsConnections
  \/ \E call \in Pending, ok \in BOOLEAN :
       \E deleted \in SUBSET Range(call.connections) :
         RemoveAllRecentsReturns(call, ok, deleted)

SpecRemoveAll == InitRemoveAll /\ [][RemoveAllNext]_vars

\* ------------------------------------------------------------------------
\* Claims on the Atlas sign-in store
\* ------------------------------------------------------------------------
\* Attempts registered by startAttempt whose completion promise is not settled.
OutstandingAttempts ==
  {id \in DOMAIN AttemptStateMap :
     AttemptStateMap[id].registered /\ AttemptStateMap[id].promise = "pending"}

CanceledRecord ==
  [state |-> "canceled", error |-> NullMsg, isModalOpen |-> FALSE,
   currentAttemptId |-> NullId]

\* C2: in every reachable state at most one sign-in attempt registered by
\* startAttempt has a completion promise that is not settled yet.
C2_AtMostOneOutstandingAttempt == Cardinality(OutstandingAttempts) <= 1

\* C3: signInWithModalPrompt / signInWithoutPrompt called while currentAttemptId is
\* set and the state is not 'success' throws, registers no attempt, schedules
\* nothing and leaves the state record and the registry unchanged.
C3_SecondStartThrows ==
  [][(/\ lastCall'.op \in {"signInWithModalPrompt", "signInWithoutPrompt"}
      /\ atlasSignInState.currentAttemptId # NullId
      /\ atlasSignInState.state # "success")
     => (/\ lastCall'.result = "threw"
         /\ UNCHANGED <<atlasSignInState, attemptId, AttemptStateMap, immediates,
                        microtasks, signInCalls, restoreCalls>>)]_vars

C3_Witness ==
  /\ lastCall.op \in {"signInWithModalPrompt", "signInWithoutPrompt"}
  /\ lastCall.result = "threw"
  /\ atlasSignInState.currentAttemptId # NullId
  /\ atlasSignInState.state # "success"
  /\ AttemptStateMap[atlasSignInState.currentAttemptId].promise = "pending"

\* C4: cancelSignIn() with a current attempt aborts its token, rejects its
\* completion promise and leaves exactly the canceled record; without a current
\* attempt it changes nothing and rejects nothing.
C4_CancelSignIn ==
  [][lastCall'.op = "cancelSignIn"
     => LET cur == atlasSignInState.currentAttemptId IN
        IF cur # NullId
        THEN /\ AttemptStateMap'[cur].aborted
             /\ AttemptStateMap'[cur].promise = "rejected"
             /\ atlasSignInState' = CanceledRecord
        ELSE UNCHANGED <<atlasSignInState, attemptId, AttemptStateMap, immediates,
                         microtasks, signInCalls, restoreCalls>>]_vars

C4_Witness ==
  /\ lastCall.op = "cancelSignIn"
  /\ lastCall.result = "rejected"
  /\ AttemptStateMap[lastCall.id].aborted
  /\ AttemptStateMap[lastCall.id].promise = "rejected"
  /\ atlasSignInState = CanceledRecord
  /\ BagCardinality(signInCalls) > 0

\* C9: restoreSignInState() in a state other than 'initial' dispatches nothing,
\* does not call the identity service and leaves the state record unchanged.
C9_RestoreNoopOutsideInitial ==
  [][(lastCall'.op = "restoreSignInState" /\ atlasSignInState.state # "initial")
     => UNCHANGED <<atlasSignInState, attemptId, AttemptStateMap, immediates,
                    microtasks, signInCalls, restoreCalls>>]_vars

C9_Witness ==
  /\ lastCall.op = "restoreSignInState"
  /\ lastCall.result = "noop"
  /\ atlasSignInState.state \in {"restoring", "in-progress", "success"}

\* C10: tokenRefreshFailed() leaves the state record unchanged unless the state is
\* 'success'; from 'success' the record becomes the initial record with state 'error'.
C10_TokenRefreshFailed ==
  [][lastCall'.op = "tokenRefreshFailed"
     => atlasSignInState' =
          IF atlasSignInState.state = "success"
          THEN [state |-> "error", error |-> NullMsg, isModalOpen |-> FALSE,
                currentAttemptId |-> NullId]
          ELSE atlasSignInState]_vars

C10_Witness ==
  /\ lastCall.op = "tokenRefreshFailed"
  /\ atlasSignInState =
       [state |-> "error", error |-> NullMsg, isModalOpen |-> FALSE,
        currentAttemptId |-> NullId]
  /\ restoreCalls = 0
  /\ attemptId > 0

\* ------------------------------------------------------------------------
\* Claims on the connections hook
\* ------------------------------------------------------------------------
\* connect() calls that dispatched 'attempt-connect' and called the connector, and
\* whose attempt has neither ended nor been cancelled.
Attempting ==
  {call \in Pending :
     call.op = "connect" /\ call.pc = "connector" /\ ~attempts[call.attempt].closed}

\* connect() calls suspended on the supplier or on the connector.
InFlight ==
  {call \in Pending :
     /\ call.op = "connect" /\ call.pc \in {"supplier", "connector"}
     /\ ~attempts[call.attempt].closed}

Ids(connections) == {connections[i].id : i \in DOMAIN connections}

\* C1: at most one connect() call is attempting at a time, and a connect() called
\* while another call is in flight (suspended on the supplier or on the connector)
\* or while isConnected holds changes nothing and calls no connector.
C1_OneAttemptAtATime ==
  [][/\ Cardinality(Attempting') <= 1
     /\ (lastCall'.op = "connect" /\ (InFlight # {} \/ isConnected))
          => UNCHANGED <<connectionsState, storage, isConnected,
                         connectingConnectionAttempt, attempts, suspended>>]_vars

\* C5 (as stated): when the post-connect save of a profile that was neither stored
\* nor listed has completed, the in-memory connections hold that profile exactly
\* once, with lastUsed set.
C5_ListedAfterConnect ==
  [][\A call \in Pending :
       (/\ ConnectSaveReturns(call, TRUE)
        /\ Stored(call.info.id) = {}
        /\ call.info.id \notin Ids(connectionsState.connections))
       => Cardinality({i \in DOMAIN connectionsState'.connections :
                         /\ connectionsState'.connections[i].id = call.info.id
                         /\ connectionsState'.connections[i].lastUsed # Absent}) = 1]_vars

\* C5 (amended): when the post-connect save of a profile that was neither stored
\* nor listed succeeds, the storage holds that profile exactly once, as it was
\* passed to connect() but with lastUsed set, and the in-memory state of the hook
\* is left as it was.
C5_StoredAfterConnect ==
  [][\A call \in Pending :
       (/\ ConnectSaveReturns(call, TRUE)
        /\ Stored(call.info.id) = {}
        /\ call.info.id \notin Ids(connectionsState.connections))
       => /\ \E saved \in storage' :
               /\ saved.id = call.info.id
               /\ saved.lastUsed # Absent
               /\ saved = [call.info EXCEPT !.lastUsed = saved.lastUsed]
               /\ \A other \in storage' : other.id = call.info.id => other = saved
          /\ UNCHANGED connectionsState]_vars

C5_Witness ==
  /\ lastCall = Call("connect:save", 3, "done")
  /\ isConnected
  /\ \E saved \in storage : saved.id = 3 /\ saved.lastUsed = now
  /\ 3 \notin Ids(connectionsState.connections)
  /\ connectionsState.connections # <<>>

\* C6: the post-connect persistence of a profile whose id is in storage saves the
\* stored version with only lastUsed replaced (not the profile passed to connect),
\* and after the save the storage holds it as the only profile with that id.
C6_OnlyLastUsedReplaced ==
  [][\A call \in Pending :
       /\ (ConnectLoadReturns(call, TRUE) /\ Stored(call.info.id) # {})
            => \E saving \in BagToSet(suspended') :
                 /\ saving.attempt = call.attempt /\ saving.pc = "save"
                 /\ saving.arg.lastUsed # Absent
                 /\ \E old \in Stored(call.info.id) :
                      saving.arg = [old EXCEPT !.lastUsed = saving.arg.lastUsed]
       /\ (ConnectSaveReturns(call, TRUE) /\ Stored(call.info.id) # {})
            => /\ call.arg \in storage'
               /\ \A other \in storage' : other.id = call.info.id => other = call.arg
               /\ \A other \in storage :
                    other.id # call.info.id => other \in storage']_vars

C6_Witness ==
  /\ lastCall = Call("connect:save", SavedFavorite.id, "done")
  /\ connectionsState.connectingStatusText = [title |-> SavedFavorite.id, oidcHint |-> TRUE]
  /\ [SavedFavorite EXCEPT !.lastUsed = now] \in storage
  /\ Cardinality(storage) = Cardinality(InitialStorage)

\* C7: when removeConnection(p) completes, p is not in connections; and if p is
\* the active profile at that moment, the active profile becomes a fresh one whose
\* id is neither p.id nor the id of a listed profile.
C7_RemovedIsNotActive ==
  [][\A call \in Pending :
       RemoveConnectionReturns(call, TRUE)
       => /\ call.info.id \notin Ids(connectionsState'.connections)
          /\ connectionsState.activeConnectionId = call.info.id
               => /\ connectionsState'.activeConnectionId # call.info.id
                  /\ connectionsState'.activeConnectionInfo.id
                       = connectionsState'.activeConnectionId
                  /\ connectionsState'.activeConnectionId
                       \notin Ids(connectionsState'.connections)]_vars

\* C8: the duplicate has a new id and, for a favorite named X, the name
\* 'X (copy)'; when it is saved it is listed and active; when the save fails or
\* the connection string is malformed, connections and the active profile stay
\* as they were.
C8_DuplicateOnlyIfSaved ==
  [][/\ \A call \in Pending :
          DuplicateConnectionReturns(call, TRUE)
          => /\ call.arg.id # call.info.id
             /\ (call.info.favorite /\ call.info.name # <<>>)
                  => call.arg.name = Append(call.info.name, " (copy)")
             /\ call.arg \in Range(connectionsState'.connections)
             /\ connectionsState'.activeConnectionInfo = call.arg
     /\ (/\ lastCall'.op \in {"duplicateConnection", "duplicateConnection:resumed"}
         /\ lastCall'.result = "not-saved")
          => /\ connectionsState'.connections = connectionsState.connections
             /\ connectionsState'.activeConnectionId = connectionsState.activeConnectionId
             /\ connectionsState'.activeConnectionInfo
                  = connectionsState.activeConnectionInfo]_vars

\* Whether str equals upper, a text in capital letters, when the case of the
\* letters is ignored.
EqualsIgnoringCase(str, upper) ==
  /\ Len(str) = Len(upper)
  /\ \A i \in DOMAIN str :
       \/ str[i] = upper[i]
       \/ \E k \in DOMAIN UpperLetters :
            UpperLetters[k] = upper[i] /\ LowerLetters[k] = str[i]

\* C11: the status text stored by 'attempt-connect' has the browser hint exactly
\* when the authMechanism parameter of the connection string of that attempt is
\* MONGODB-OIDC in any case; not for another value or a missing parameter.
C11_OidcHint ==
  [][lastCall'.result = "attempting"
     => \E call \in BagToSet(suspended') :
          /\ call.pc = "connector"
          /\ call.attempt = connectionsState'.connectionAttempt
          /\ connectionsState'.connectingStatusText.title = call.info.id
          /\ connectionsState'.connectingStatusText.oidcHint
               <=> EqualsIgnoringCase(call.info.connectionString.authMechanism,
                     <<"M", "O", "N", "G", "O", "D", "B", "-", "O", "I", "D", "C">>)]_vars

C11_Witness ==
  /\ lastCall.result = "attempting"
  /\ connectionsState.connectingStatusText.oidcHint
  /\ \E call \in Pending :
       /\ call.pc = "connector"
       /\ call.attempt = connectionsState.connectionAttempt
       /\ call.info.connectionString.authMechanism
            = <<"M", "o", "n", "g", "o", "D", "B", "-", "o", "I", "d", "c">>

\* The time a profile was last used, 0 for a profile never used.
TimeOrZero(connectionInfo) ==
  IF connectionInfo.lastUsed = Absent THEN 0 ELSE connectionInfo.lastUsed

\* C12: recentConnections holds exactly the non-favorite profiles of connections,
\* each once, in descending order of lastUsed with a missing lastUsed taken as 0.
C12_RecentsSorted ==
  LET connections == connectionsState.connections
      recents == recentConnections(connections)
  IN /\ Range(recents) = {info \in Range(connections) : ~info.favorite}
     /\ Len(recents) = Cardinality({i \in DOMAIN connections : ~connections[i].favorite})
     /\ \A i, j \in DOMAIN recents :
          i < j => TimeOrZero(recents[i]) >= TimeOrZero(recents[j])

\* lastUsed [t3, absent, t1] yields [t3, t1, absent].
C12_Witness ==
  LET used(id, lastUsed) == ConnectionInfo(id, Localhost, FALSE, <<>>, lastUsed)
  IN /\ connectionsState.connections = <<used(1, 3), used(2, Absent), used(3, 1)>>
     /\ recentConnections(connectionsState.connections)
          = <<used(1, 3), used(3, 1), used(2, Absent)>>

\* C13: cancelConnectionAttempt() leaves connectionAttempt and
\* connectionErrorMessage null, and the connector call of a cancelled attempt,
\* when it returns or rejects later, does not change connectionErrorMessage.
C13_CancelSetsNoError ==
  [][/\ lastCall'.op = "cancelConnectionAttempt"
          => /\ connectionsState'.connectionAttempt = NoAttempt
             /\ connectionsState'.connectionErrorMessage = NoText
     /\ \A call \in Pending, msg \in Messages :
          \A outcome \in {"dataService", "undefined", "throws"} :
            (ConnectorReturns(call, outcome, msg) /\ attempts[call.attempt].closed)
            => connectionsState'.connectionErrorMessage
                 = connectionsState.connectionErrorMessage]_vars

\* C14: a failure of the storage load, save or delete of the post-connect step
\* raises no toast and leaves the state of the hook (connectionErrorMessage,
\* connectionAttempt) as the successful connect left it.
C14_PersistenceFailureNotSurfaced ==
  [][lastCall'.op \in {"connect:load", "connect:save", "connect:delete"}
     => /\ lastCall'.toast = "none"
        /\ UNCHANGED <<connectionsState, isConnected>>]_vars

\* C15: saveConnection(p) with a malformed connection string returns without
\* throwing, raises the error toast, awaits no storage save and leaves the
\* storage, connections and the active profile unchanged.
C15_MalformedNotSaved ==
  [][\A info \in Inputs :
       (SaveConnection(info) /\ ~info.connectionString.wellFormed)
       => /\ lastCall' = CallToast("saveConnection", info.id, "not-saved",
                                   "save-connection-error")
          /\ UNCHANGED <<connectionsState, storage, suspended>>]_vars

C15_Witness ==
  /\ lastCall = CallToast("saveConnection", 4, "not-saved", "save-connection-error")
  /\ connectionsState.connections = loadAll(InitialStorage)
  /\ storage = InitialStorage
  /\ \A call \in Pending : call.op # "saveConnection"

\* The collection with p in the place of the first entry that has p's id, or
\* with p added at the end when no entry has it.
Merged(connections, p) ==
  IF p.id \in Ids(connections)
  THEN [i \in DOMAIN connections |->
          IF connections[i].id = p.id /\ \A j \in 1..(i - 1) : connections[j].id # p.id
          THEN p ELSE connections[i]]
  ELSE connections \o <<p>>

\* C16: when saveConnection(p) completes after a successful save, connections is
\* the collection the call saw with p replaced in place or appended, holding p as
\* its only entry with p's id; and if p is the active profile at that moment,
\* activeConnectionInfo becomes p in the same step, so that the active profile
\* is never an older version of the listed p.
C16_SavedMergedAtomically ==
  [][\A call \in Pending :
       SaveConnectionReturns(call, TRUE)
       => /\ connectionsState'.connections = Merged(call.connections, call.info)
          /\ \A i \in DOMAIN connectionsState'.connections :
               connectionsState'.connections[i].id = call.info.id
               => connectionsState'.connections[i] = call.info
          /\ connectionsState.activeConnectionId = call.info.id
               => connectionsState'.activeConnectionInfo = call.info]_vars

Evictions(pending, attempt) ==
  {call \in BagToSet(pending) :
     call.op = "connect" /\ call.pc = "delete" /\ call.attempt = attempt}

\* C18: when the save of the post-connect step has returned, one storage delete
\* is issued if the profile handed to the save is no favorite, had no lastUsed
\* and the collection of the call holds at least MAX_RECENT_CONNECTIONS_LENGTH
\* non-favorites, and its target is a non-favorite of that collection with the
\* least lastUsed (a missing one taken as 0); otherwise none is issued; and no
\* further delete follows the first.
C18_EvictsOldestRecent ==
  [][\A call \in Pending, ok \in BOOLEAN :
       /\ ConnectSaveReturns(call, ok)
            => LET held == call.connections
                   recents == {i \in DOMAIN held : ~held[i].favorite}
                   issued == Evictions(suspended', call.attempt)
               IN IF /\ ~call.toBeSaved.favorite
                     /\ call.toBeSaved.lastUsed = Absent
                     /\ Cardinality(recents) >= MAX_RECENT_CONNECTIONS_LENGTH
                  THEN \E evicting \in issued :
                         /\ issued = {evicting}
                         /\ CopiesIn(evicting, suspended') = 1
                         /\ \E i \in recents : held[i] = evicting.arg
                         /\ ~evicting.arg.favorite
                         /\ \A i \in recents :
                              TimeOrZero(evicting.arg) <= TimeOrZero(held[i])
                  ELSE issued = {}
       /\ ConnectDeleteReturns(call, ok)
            => /\ Evictions(suspended', call.attempt) = {}
               /\ storage' = IF ok THEN {info \in storage : info.id # call.arg.id}
                             ELSE storage]_vars

C18_Witness ==
  /\ lastCall = Call("connect:save", 3, "evicting")
  /\ \E call \in Pending :
       /\ call.op = "connect" /\ call.pc = "delete"
       /\ call.info.id = 3
       /\ call.arg = SavedRecent
       /\ Len(recentConnections(call.connections)) = MAX_RECENT_CONNECTIONS_LENGTH

\* C19: a restore whose check returns while the state is 'restoring' ends in
\* 'success' (check true) or 'unauthenticated' (check false or throwing) with a
\* null error, a restore result arriving in another state changes nothing, and
\* the state 'restoring' is always left once the pending check answers.
C19_RestoreResolves ==
  /\ [][lastCall'.op = "restoreSignInState:resumed"
        => IF atlasSignInState.state = "restoring"
           THEN atlasSignInState' =
                  [atlasSignInState EXCEPT
                     !.state = IF lastCall'.result = "true"
                               THEN "success" ELSE "unauthenticated",
                     !.error = NullMsg]
           ELSE UNCHANGED atlasSignInState]_vars
  /\ (atlasSignInState.state = "restoring") ~> (atlasSignInState.state # "restoring")

C19_Witness ==
  /\ lastCall = Call("restoreSignInState:resumed", NullId, "throw")
  /\ atlasSignInState = [INITIAL_STATE EXCEPT !.state = "unauthenticated"]
  /\ calls = 1

C21_NoSuccessAfterCancel ==
  [][\A call \in BagToSet(signInCalls) :
       (signalAborted(call.id) /\ GetUserInfoReturns(call))
         => UNCHANGED atlasSignInState]_vars

\* C22: in every reachable state the OIDC device-flow fields (verification URL
\* and user code) are set only while a connection attempt is current: with no
\* current attempt both are null.
C22_DeviceFlowOnlyWhileAttempting ==
  connectionsState.connectionAttempt = NoAttempt
    => /\ connectionsState.oidcDeviceAuthVerificationUrl = NoText
       /\ connectionsState.oidcDeviceAuthUserCode = NoText

\* C23: signedOut() resets the sign-in record to exactly the initial record
\* from every state, an attempt being current or not.
C23_SignedOutResets ==
  [][SignedOut => atlasSignInState' = INITIAL_STATE]_vars

C23_Witness ==
  /\ lastCall = Call("signedOut", NullId, "ok")
  /\ atlasSignInState = INITIAL_STATE
  /\ attemptId = 1
  /\ AttemptStateMap[1].promise = "pending"
  /\ ~AttemptStateMap[1].aborted
  /\ signInCalls # EmptyBag

\* C24: when the connector call of a connect() rejects and the attempt of that
\* call is not cancelled, the step leaves connectionAttempt null and
\* connectionErrorMessage equal to the message of the failure, and the call is
\* over: it makes no second connector call.
C24_ConnectorRejects ==
  [][\A call \in Pending, msg \in Messages :
       (/\ call.op = "connect" /\ call.pc = "connector"
        /\ ~attempts[call.attempt].closed
        /\ ConnectorReturns(call, "throws", msg))
         => /\ connectionsState'.connectionAttempt = NoAttempt
            /\ connectionsState'.connectionErrorMessage = msg
            /\ suspended' = suspended (-) One(call)
            /\ UNCHANGED <<attempts, isConnected, storage>>]_vars

C24_Witness ==
  /\ lastCall = Call("connect:connector", 1, "errored")
  /\ connectionsState.connectionAttempt = NoAttempt
  /\ connectionsState.connectionErrorMessage = "E2"
  /\ Len(attempts) = 1 /\ ~attempts[1].closed
  /\ \A call \in Pending : call.op # "connect"

\* C25: when the supplier of a connect(supplier) yields nothing, the call ends
\* without a dispatch: the hook state is unchanged, the call makes no connector
\* call, nothing is stored, and no attempt is registered for the cancellation
\* of the teardown after the step.
C25_SupplierYieldsNothing ==
  [][\A call \in Pending, info \in Inputs :
       SupplierReturns(call, "nothing", info)
         => /\ UNCHANGED <<connectionsState, attempts, storage, isConnected>>
            /\ suspended' = suspended (-) One(call)
            /\ connectingConnectionAttempt' = NoAttempt]_vars

C25_Witness ==
  /\ lastCall = Call("connect:supplier", NoId, "nothing")
  /\ connectingConnectionAttempt = NoAttempt
  /\ connectionsState.connectionAttempt = NoAttempt
  /\ Len(attempts) = 1
  /\ \A call \in Pending : call.op # "connect"

\* C26: a connect(supplier) does not persist: when its supplier yields a
\* profile, that profile is made the active one and then the attempt is
\* announced (a malformed profile is active although its attempt is never
\* announced), and when its connector call succeeds onConnected is invoked and
\* the call ends with no storage load, save or delete; the connector call of a
\* connect(profile) that succeeds goes on to the storage load of its
\* persistence.
C26_SupplierConnectNotPersisted ==
  [][\A call \in Pending :
       /\ \A info \in Inputs :
            SupplierReturns(call, "info", info)
              => /\ ~call.save
                 /\ connectionsState'.activeConnectionId = info.id
                 /\ connectionsState'.activeConnectionInfo = info
                 /\ IF info.connectionString.wellFormed
                    THEN /\ connectionsState'.connectionAttempt = call.attempt
                         /\ suspended' =
                              (suspended (-) One(call))
                                (+) One([call EXCEPT !.info = info, !.pc = "connector"])
                    ELSE /\ connectionsState'.connectionAttempt = NoAttempt
                         /\ suspended' = suspended (-) One(call)
       /\ \A msg \in Messages :
            (/\ call.op = "connect" /\ call.pc = "connector"
             /\ ~attempts[call.attempt].closed
             /\ ConnectorReturns(call, "dataService", msg))
              => /\ isConnected'
                 /\ UNCHANGED storage
                 /\ suspended' =
                      IF call.save
                      THEN (suspended (-) One(call)) (+) One([call EXCEPT !.pc = "load"])
                      ELSE suspended (-) One(call)]_vars

C26_Witness ==
  /\ lastCall = Call("connect:connector", 3, "succeeded")
  /\ isConnected
  /\ connectionsState.activeConnectionId = 3
  /\ connectionsState.connectionAttempt = NoAttempt
  /\ storage = InitialStorage
  /\ \A call \in Pending : call.op # "connect"

\* C27: when the connector call of a connect() returns after that call's
\* attempt was cancelled, the call ends there: no
\* 'connection-attempt-succeeded' is dispatched (the hook state is unchanged),
\* onConnected is not invoked and nothing is loaded, saved or deleted.
C27_CancelledAttemptNeverSucceeds ==
  [][\A call \in Pending, msg \in Messages :
       (/\ call.op = "connect" /\ call.pc = "connector"
        /\ attempts[call.attempt].closed
        /\ \E outcome \in {"dataService", "undefined"} :
             ConnectorReturns(call, outcome, msg))
         => /\ UNCHANGED <<connectionsState, isConnected, storage, attempts>>
            /\ suspended' = suspended (-) One(call)]_vars

C27_Witness ==
  /\ lastCall = Call("connect:connector", 1, "cancelled")
  /\ Len(attempts) = 1 /\ attempts[1].closed
  /\ connectionsState.connectionAttempt = NoAttempt
  /\ connectionsState.connectionErrorMessage = NoText
  /\ ~isConnected
  /\ storage = InitialStorage
  /\ \A call \in Pending : call.op # "connect"

\* C28: when the hook unmounts, every connect() call that is suspended on its
\* connector call has its attempt cancelled: after the cleanup no attempt in
\* flight is left not closed, also when several connect() calls are suspended.
C28_UnmountCancelsInFlight ==
  [][Unmount
     => \A call \in Pending :
          (call.op = "connect" /\ call.pc = "connector")
            => attempts'[call.attempt].closed]_vars

\* C29: when the authentication check of a restore answers (true, false or by
\* throwing) while the state is not 'restoring', the whole sign-in record is
\* left as it is.
C29_LateRestoreIgnored ==
  [][\A outcome \in {"true", "false", "throw"} :
       (atlasSignInState.state # "restoring" /\ RestoreReturns(outcome))
         => UNCHANGED atlasSignInState]_vars

C29_Witness ==
  /\ lastCall = Call("restoreSignInState:resumed", NullId, "true")
  /\ atlasSignInState.state = "in-progress"
  /\ atlasSignInState.currentAttemptId = 1
  /\ restoreCalls = 0

\* C30: the eviction that follows the save of a connected profile never has
\* that profile as its target: in every connect() call that awaits the
\* storage delete of the eviction, the id of the profile to delete differs
\* from the id of the profile connected and saved.
C30_EvictionSparesConnected ==
  \A call \in Pending :
    (call.op = "connect" /\ call.pc = "delete") => call.arg.id # call.info.id

\* C31: the AttemptEnd that follows the settling of an attempt's promise never
\* clears the currentAttemptId of another, newer attempt: when the current
\* attempt is not the one that ended, it is still current after the step, so
\* that signIn() settles the handle of the attempt that scheduled it.
C31_AttemptEndKeepsNewerAttempt ==
  [][(/\ AttemptEnd
      /\ atlasSignInState.currentAttemptId # NullId
      /\ atlasSignInState.currentAttemptId # Head(microtasks))
       => atlasSignInState'.currentAttemptId = atlasSignInState.currentAttemptId]_vars

====
